---- MODULE Spec2Model ----
(***************************************************************************)
(* Authentication, session and authorization core of the event manager:   *)
(* server/auth.ts (setupAuth), server/routes.ts (registerRoutes) and the   *)
(* DatabaseStorage of server/storage.ts over the tables of                 *)
(* shared/schema.ts.                                                       *)
(*                                                                         *)
(* A text value is a sequence of symbols (a symbol is a character or a     *)
(* fixed chunk of characters); the empty sequence stands for null, as the  *)
(* storage layer's `x || null` makes the empty string and null the same.   *)
(* A handler that reads the database and then writes what it decided on   *)
(* is handled in segments, split at the await between the read and the     *)
(* write; segments of different requests interleave.  resp is the response *)
(* the last step sent, if it sent one; activities holds the records        *)
(* appended to the activities table since the initial state.               *)
(***************************************************************************)
EXTENDS Integers, Sequences, FiniteSets, TLC

VARIABLES nodeEnv, sinkUp, entry, users, sess, activities, events, req, resp

vars == <<nodeEnv, sinkUp, entry, users, sess, activities, events, req, resp>>

----------------------------------------------------------------------------
(* Bounds of the exploration *)

MaxActs == 2
MaxEvents == 1

Slots == {1, 2}
Sessions == {"s1", "s2"}

\* the invocations of the serverless handler that are followed
Invocations == {1, 2, 3, 4}

----------------------------------------------------------------------------
(* Text values *)

NULL == <<>>

ADMIN == <<"admin">>
AdminEmail == <<"admin", "@", "eventopro.com">>
AdminPassword == "admin123"

RegUsernames == {ADMIN, <<"j", ".", "d">>}
Emails == {AdminEmail, <<"JD", "@", "x.com">>}
Passwords == {AdminPassword, "pw"}
RegPasswords == {"pw"}
\* the role a registration's body asks for, in a field the handler does not
\* read
BodyRoles == {"admin"}
LoginUsernames == RegUsernames \cup {<<"nobody">>}
Salts == {"salt1"}
DisplayNames == {<<"Admin">>, <<"J", " ", " ", "D">>}
GoogleIds == {<<"g1">>}
Names == {<<"N">>}
Avatars == {<<"pic">>}
PathIds == {1, 2, 3}
EventPathIds == {1, 2}
EventBodies == [name : {<<"ev">>}, status : {"undefined", "cancelled"}]

\* a field the request body does not carry
UNDEFINED == <<"undefined">>

\* the bodies of the profile updates: a new email, or a new name and picture,
\* and a role, which the handler does not read
ProfileBodies ==
    [name : {UNDEFINED}, email : Emails, avatarUrl : {UNDEFINED},
     role : BodyRoles]
    \cup [name : Names, email : {UNDEFINED}, avatarUrl : Avatars,
          role : BodyRoles]

Lower(c) ==
    CASE c = "Admin" -> "admin"
      [] c = "J" -> "j"
      [] c = "D" -> "d"
      [] c = "JD" -> "jd"
      [] OTHER -> c

toLowerCase(s) == [i \in 1..Len(s) |-> Lower(s[i])]

IsWs(c) == c \in {" "}

RECURSIVE DropWs(_)
DropWs(s) == IF s # <<>> /\ IsWs(Head(s)) THEN DropWs(Tail(s)) ELSE s

\* s.replace(/\s+/g, "."): every maximal run of whitespace becomes one "."
RECURSIVE replaceWs(_)
replaceWs(s) ==
    IF s = <<>> THEN <<>>
    ELSE IF IsWs(Head(s)) THEN <<".">> \o replaceWs(DropWs(Tail(s)))
    ELSE <<Head(s)>> \o replaceWs(Tail(s))

\* s.split("@")[0]: the part before the first "@" (all of s when there is none)
RECURSIVE splitAt0(_)
splitAt0(s) ==
    IF s = <<>> \/ Head(s) = "@" THEN <<>>
    ELSE <<Head(s)>> \o splitAt0(Tail(s))

----------------------------------------------------------------------------
(* Password hasher *)

\* A text of the hasher is a sequence of units, each a tuple: a unit of a
\* digest is <<password, salt, i>>, any other unit holds its characters.
\* the key length asked of scrypt, in units
KeyLen == 2

\* the separator of `${hex}.${salt}`
Dot == <<".">>

\* randomBytes(16).toString("hex") as a text
saltText(salt) == <<<<salt>>>>

\* scrypt(password, salt, 64): KeyLen units that are a function of (password,
\* salt) whose values differ whenever its arguments do
scrypt(password, salt) == [i \in 1..KeyLen |-> <<password, salt, i>>]

\* buf.toString("hex"): every unit of the buffer is a unit of hex text
scryptHex(password, salt) == scrypt(password, salt)

\* `${buf.toString("hex")}.${salt}`: the hex text, a ".", the salt text
hashPassword(password, salt) ==
    scryptHex(password, saltText(salt)) \o <<Dot>> \o saltText(salt)

\* text that is no hex digit
NotHex == {<<"zz">>}

\* a unit of hex text
IsHexUnit(c) == c \notin NotHex

\* s.split("."): the parts of s between its "."
RECURSIVE splitDot(_, _)
splitDot(s, part) ==
    IF s = <<>> THEN <<part>>
    ELSE IF Head(s) = Dot THEN <<part>> \o splitDot(Tail(s), <<>>)
    ELSE splitDot(Tail(s), Append(part, Head(s)))

\* Buffer.from(s, "hex"): decodes up to the first unit that is not hex
RECURSIVE fromHex(_)
fromHex(s) ==
    IF s = <<>> \/ ~IsHexUnit(Head(s)) THEN <<>>
    ELSE <<Head(s)>> \o fromHex(Tail(s))

\* comparePasswords: "true" or "false", or the error it rejects with: scrypt
\* throws a TypeError for a salt that is undefined, timingSafeEqual a
\* RangeError for buffers of different lengths
comparePasswordsResult(supplied, stored) ==
    LET parts == splitDot(stored, <<>>)
        hashed == parts[1]
        hashedBuf == fromHex(hashed)
    IN  IF Len(parts) < 2 THEN "TypeError"
        ELSE LET suppliedBuf == scrypt(supplied, parts[2])
             IN  IF Len(hashedBuf) # Len(suppliedBuf) THEN "RangeError"
                 ELSE IF hashedBuf = suppliedBuf THEN "true" ELSE "false"

comparePasswords(supplied, stored) ==
    comparePasswordsResult(supplied, stored) = "true"

\* comparePasswords rejected
comparePasswordsThrows(supplied, stored) ==
    comparePasswordsResult(supplied, stored) \in {"TypeError", "RangeError"}

----------------------------------------------------------------------------
(* Tables of shared/schema.ts *)

userRoleEnum == {"admin", "user"}
authProviderEnum == {"local", "google", "facebook"}
eventStatusEnum == {"confirmed", "pending", "cancelled", "planning"}

UserIds == 1..Len(users)

\* the row a lookup returns: result[0] of a SELECT without ORDER BY, any of the
\* matching rows; 0 stands for undefined
Rows(S) == IF S = {} THEN {0} ELSE S

getUser(id) == IF id \in UserIds THEN id ELSE 0
getUserByUsername(username) == Rows({i \in UserIds : users[i].username = username})
getUserByEmail(email) == Rows({i \in UserIds : users[i].email = email})
getUserByProviderId(provider, providerId) ==
    Rows({i \in UserIds : users[i].provider = provider /\ users[i].providerId = providerId})

\* users.emailIdx: the unique index on users.email
emailIdx(us) == \A i, j \in 1..Len(us) : us[i].email = us[j].email => i = j

\* NewUser that does not store the provider id
NewUser_DropsProviderId(u) ==
    [username |-> u.username, email |-> u.email, password |-> u.password,
     name |-> u.name, role |-> u.role, provider |-> u.provider,
     providerId |-> NULL, avatarUrl |-> u.avatarUrl]

\* the row createUser inserts
NewUser(u) ==
    [username |-> u.username, email |-> u.email, password |-> u.password,
     name |-> u.name, role |-> u.role, provider |-> u.provider,
     providerId |-> u.providerId, avatarUrl |-> u.avatarUrl]

\* createUserOk over a users table that has no unique index on email
createUserOk_NoEmailIdx(u) ==
    /\ u.role \in userRoleEnum
    /\ u.provider \in authProviderEnum

\* whether the INSERT of createUser is accepted by the table's constraints
createUserOk(u) ==
    /\ u.role \in userRoleEnum
    /\ u.provider \in authProviderEnum
    /\ emailIdx(Append(users, NewUser(u)))

createUser(u) == Append(users, NewUser(u))

\* whether the UPDATE of updateUser is accepted by the table's constraints
updateUserOk(id, email) == emailIdx([users EXCEPT ![id].email = email])

\* setUserRole whose UPDATE has lost its WHERE clause
setUserRole_AllRows(id, role) ==
    [i \in 1..Len(users) |-> [users[i] EXCEPT !.role = role]]

setUserRole(id, role) == [users EXCEPT ![id].role = role]

\* the row createActivity inserts
Activity(action, userId, eventId, description) ==
    [action |-> action, userId |-> userId, eventId |-> eventId,
     description |-> description]

createActivity(log, a) == Append(log, a)

----------------------------------------------------------------------------
(* Session middleware *)

\* passport.deserializeUser: the user the session's id resolves to, 0 if none
reqUser(s) == getUser(sess[s])

isAuthenticated(s) == reqUser(s) # 0

\* req.login(user): the session now carries user.id
login(s, id) == [sess EXCEPT ![s] = id]

----------------------------------------------------------------------------
(* Requests *)

Idle == [pc |-> "idle"]

NoResp == [op |-> "none"]

\* a response: the route, the status and the message
Resp(op, status, msg) == [op |-> op, status |-> status, msg |-> msg]

\* a step that appends n records to the activity log is taken only while the
\* log has room for them
Room(n) == Len(activities) + n <= MaxActs

\* a step that appends n records to the log, taken while the sink of the
\* activities takes them
Logs(n) == sinkUp /\ Room(n)

\* a request handled in segments is taken on the first free connection, while
\* the log has room
CanStart(r) ==
    /\ req[r].pc = "idle"
    /\ \A q \in Slots : req[q].pc = "idle" => ~(q < r)
    /\ Room(1)

\* the module of the serverless entry point once it is loaded: nothing is
\* registered on the app and no invocation has come
Loaded ==
    [isInitialized |-> FALSE, parsers |-> 0, routes |-> 0, errorHandlers |-> 0,
     pc |-> [i \in Invocations |-> "new"]]

\* a database that holds no row yet
Fresh ==
    /\ entry = Loaded
    /\ users = <<>>
    /\ sess = [s \in Sessions |-> 0]
    /\ activities = <<>>
    /\ events = <<>>
    /\ req = [r \in Slots |-> Idle]
    /\ resp = NoResp

Init == nodeEnv = "development" /\ sinkUp = TRUE /\ Fresh

InitProd == nodeEnv = "production" /\ sinkUp = TRUE /\ Fresh

----------------------------------------------------------------------------
(* POST /api/register *)

RegisterCheckUsername(r) ==
    \E s \in Sessions, username \in RegUsernames, email \in Emails,
       password \in RegPasswords, role \in BodyRoles :
      \E existingUser \in getUserByUsername(username) :
        /\ CanStart(r)
        /\ IF existingUser # 0
           THEN /\ resp' = Resp("register", 400, "Nome de usuário já existe")
                /\ UNCHANGED req
           ELSE /\ req' = [req EXCEPT ![r] =
                        [pc |-> "reg_email", sid |-> s, username |-> username,
                         email |-> email, password |-> password,
                         bodyRole |-> role]]
                /\ resp' = NoResp
        /\ UNCHANGED <<nodeEnv, sinkUp, entry, users, sess, activities, events>>

RegisterCheckEmail(r) ==
    /\ req[r].pc = "reg_email"
    /\ \E existingEmail \in getUserByEmail(req[r].email) :
        IF existingEmail # 0
        THEN /\ resp' = Resp("register", 400, "Email já está em uso")
             /\ req' = [req EXCEPT ![r] = Idle]
        ELSE /\ req' = [req EXCEPT ![r].pc = "reg_create"]
             /\ resp' = NoResp
    /\ UNCHANGED <<nodeEnv, sinkUp, entry, users, sess, activities, events>>

\* RegisterCreate that passes the role of the request's body on to createUser
RegisterCreate_TrustsBody(r) ==
    /\ req[r].pc = "reg_create"
    /\ \E salt \in Salts :
        LET u == [username |-> req[r].username, email |-> req[r].email,
                  password |-> hashPassword(req[r].password, salt),
                  name |-> NULL, role |-> req[r].bodyRole, provider |-> "local",
                  providerId |-> NULL, avatarUrl |-> NULL]
            id == Len(users) + 1
        IN  IF createUserOk(u)
            THEN /\ Logs(1)
                 /\ users' = createUser(u)
                 /\ activities' = createActivity(activities,
                        Activity("register", id, 0, <<u.username>>))
                 /\ sess' = login(req[r].sid, id)
                 /\ resp' = Resp("register", 201, "")
            ELSE /\ resp' = Resp("register", 500, "error")
                 /\ UNCHANGED <<users, sess, activities>>
    /\ req' = [req EXCEPT ![r] = Idle]
    /\ UNCHANGED <<nodeEnv, sinkUp, entry, events>>

RegisterCreate(r) ==
    /\ req[r].pc = "reg_create"
    /\ \E salt \in Salts :
        LET u == [username |-> req[r].username, email |-> req[r].email,
                  password |-> hashPassword(req[r].password, salt),
                  name |-> NULL, role |-> "user", provider |-> "local",
                  providerId |-> NULL, avatarUrl |-> NULL]
            id == Len(users) + 1
        IN  IF createUserOk(u) /\ ~sinkUp
            THEN /\ users' = createUser(u)
                 /\ resp' = Resp("register", 500, "createActivity")
                 /\ UNCHANGED <<sess, activities>>
            ELSE IF createUserOk(u)
            THEN /\ Logs(1)
                 /\ users' = createUser(u)
                 /\ activities' = createActivity(activities,
                        Activity("register", id, 0, <<u.username>>))
                 /\ sess' = login(req[r].sid, id)
                 /\ resp' = Resp("register", 201, "")
            ELSE /\ resp' = Resp("register", 500, "error")
                 /\ UNCHANGED <<users, sess, activities>>
    /\ req' = [req EXCEPT ![r] = Idle]
    /\ UNCHANGED <<nodeEnv, sinkUp, entry, events>>

----------------------------------------------------------------------------
(* Local strategy and POST /api/login *)

\* localVerify with a message of its own for a username that has no row
localVerify_TellsUnknownUser(user, password) ==
    IF user = 0
    THEN [user |-> 0, message |-> "Usuário não encontrado", error |-> ""]
    ELSE IF /\ users[user].password # NULL
            /\ comparePasswordsThrows(password, users[user].password)
    THEN [user |-> 0, message |-> "",
          error |-> comparePasswordsResult(password, users[user].password)]
    ELSE IF \/ users[user].password = NULL
            \/ ~comparePasswords(password, users[user].password)
    THEN [user |-> 0, message |-> "Credenciais inválidas", error |-> ""]
    ELSE [user |-> user, message |-> "", error |-> ""]

\* the LocalStrategy verify callback, on the row the username lookup returned:
\* done(null, false, message), done(null, user), or done(error) for what
\* comparePasswords rejects with
localVerify(user, password) ==
    IF /\ user # 0
       /\ users[user].password # NULL
       /\ comparePasswordsThrows(password, users[user].password)
    THEN [user |-> 0, message |-> "",
          error |-> comparePasswordsResult(password, users[user].password)]
    ELSE IF user = 0 \/ users[user].password = NULL
            \/ ~comparePasswords(password, users[user].password)
    THEN [user |-> 0, message |-> "Credenciais inválidas", error |-> ""]
    ELSE [user |-> user, message |-> "", error |-> ""]

LoginReq(s, username, password) ==
      \E row \in getUserByUsername(username) :
        LET info == localVerify(row, password)
            user == info.user
        IN  /\ IF info.error # ""
               THEN /\ resp' = Resp("login", 500, info.error)
                    /\ UNCHANGED <<sess, activities>>
               ELSE IF user = 0
               THEN /\ resp' = Resp("login", 401,
                            IF info.message # "" THEN info.message
                            ELSE "Credenciais inválidas")
                    /\ UNCHANGED <<sess, activities>>
               ELSE IF ~sinkUp
               THEN /\ sess' = login(s, user)
                    /\ resp' = Resp("login", 0, "unhandledRejection")
                    /\ UNCHANGED activities
               ELSE /\ Logs(1)
                    /\ sess' = login(s, user)
                    /\ activities' = createActivity(activities,
                            Activity("login", user, 0, <<users[user].username>>))
                    /\ resp' = Resp("login", 200, "")
            /\ UNCHANGED <<nodeEnv, sinkUp, entry, users, events, req>>

Login ==
    \E s \in Sessions, username \in LoginUsernames, password \in Passwords :
        LoginReq(s, username, password)

----------------------------------------------------------------------------
(* POST /api/logout and GET /api/user *)

\* LogoutReq whose req.logout leaves the session as it was
LogoutReq_KeepsSession(s) ==
    LET user == reqUser(s)
    IN  /\ IF user # 0
           THEN /\ Logs(1)
                /\ activities' = createActivity(activities,
                        Activity("logout", user, 0, <<users[user].username>>))
           ELSE UNCHANGED activities
        /\ resp' = Resp("logout", 200, "OK")
        /\ UNCHANGED <<nodeEnv, sinkUp, entry, users, sess, events, req>>

\* LogoutReq that records the logout whether or not the session had a user
LogoutReq_LogsAnonymous(s) ==
    LET user == reqUser(s)
    IN  /\ sess' = [sess EXCEPT ![s] = 0]
        /\ Logs(1)
        /\ activities' = createActivity(activities,
                Activity("logout", user, 0,
                         IF user # 0 THEN <<users[user].username>> ELSE NULL))
        /\ resp' = Resp("logout", 200, "OK")
        /\ UNCHANGED <<nodeEnv, sinkUp, entry, users, events, req>>

\* LogoutReq that ends every session of the user
LogoutReq_EverySessionOfUser(s) ==
    LET user == reqUser(s)
    IN  /\ sess' = [q \in Sessions |-> IF sess[q] = sess[s] THEN 0 ELSE sess[q]]
        /\ IF user # 0 /\ sinkUp
           THEN /\ Logs(1)
                /\ activities' = createActivity(activities,
                        Activity("logout", user, 0, <<users[user].username>>))
           ELSE UNCHANGED activities
        /\ resp' = Resp("logout", 200, "OK")
        /\ UNCHANGED <<nodeEnv, sinkUp, entry, users, events, req>>

LogoutReq(s) ==
    LET user == reqUser(s)
    IN  /\ sess' = [sess EXCEPT ![s] = 0]
        /\ IF user # 0 /\ sinkUp
           THEN /\ Logs(1)
                /\ activities' = createActivity(activities,
                        Activity("logout", user, 0, <<users[user].username>>))
           ELSE UNCHANGED activities
        /\ resp' = Resp("logout", 200, "OK")
        /\ UNCHANGED <<nodeEnv, sinkUp, entry, users, events, req>>

Logout == \E s \in Sessions : LogoutReq(s)

CurrentUserReq(s) ==
    /\ resp' = IF isAuthenticated(s) THEN Resp("user", 200, "")
               ELSE Resp("user", 401, "Não autenticado")
    /\ UNCHANGED <<nodeEnv, sinkUp, entry, users, sess, activities, events, req>>

CurrentUser == \E s \in Sessions : CurrentUserReq(s)

----------------------------------------------------------------------------
(* Google strategy and GET /auth/google/callback *)

GoogleLookup(r) ==
    \E s \in Sessions, id \in GoogleIds, displayName \in DisplayNames,
       email \in Emails \cup {NULL} :
      \E user \in getUserByProviderId("google", id) :
        /\ CanStart(r)
        /\ req' = [req EXCEPT ![r] =
                IF user = 0
                THEN [pc |-> "g_create", sid |-> s, id |-> id,
                      displayName |-> displayName, email |-> email]
                ELSE [pc |-> "g_login", sid |-> s, user |-> user,
                      created |-> FALSE]]
        /\ resp' = NoResp
        /\ UNCHANGED <<nodeEnv, sinkUp, entry, users, sess, activities, events>>

GoogleCreate(r) ==
    /\ req[r].pc = "g_create"
    /\ LET u == [username |-> toLowerCase(replaceWs(req[r].displayName)),
                 email |-> IF req[r].email # NULL THEN req[r].email
                           ELSE req[r].id \o <<"@", "google.com">>,
                 password |-> NULL, name |-> req[r].displayName,
                 role |-> "user", provider |-> "google",
                 providerId |-> req[r].id, avatarUrl |-> NULL]
           id == Len(users) + 1
       IN  IF createUserOk(u) /\ ~sinkUp
           THEN /\ users' = createUser(u)
                /\ resp' = Resp("google", 500, "createActivity")
                /\ req' = [req EXCEPT ![r] = Idle]
                /\ UNCHANGED activities
           ELSE IF createUserOk(u)
           THEN /\ Logs(1)
                /\ users' = createUser(u)
                /\ activities' = createActivity(activities,
                        Activity("register", id, 0, <<u.name>>))
                /\ req' = [req EXCEPT ![r] =
                        [pc |-> "g_login", sid |-> req[r].sid, user |-> id,
                         created |-> TRUE]]
                /\ resp' = NoResp
           ELSE /\ resp' = Resp("google", 500, "error")
                /\ req' = [req EXCEPT ![r] = Idle]
                /\ UNCHANGED <<users, activities>>
    /\ UNCHANGED <<nodeEnv, sinkUp, entry, sess, events>>

\* GoogleLogin that records no login
GoogleLogin_NoRecord(r) ==
    /\ req[r].pc = "g_login"
    /\ sess' = login(req[r].sid, req[r].user)
    /\ resp' = Resp("google", 302, "/")
    /\ req' = [req EXCEPT ![r] = Idle]
    /\ UNCHANGED <<nodeEnv, sinkUp, entry, users, events, activities>>

GoogleLogin(r) ==
    /\ req[r].pc = "g_login"
    /\ LET user == req[r].user
       IN  /\ sess' = login(req[r].sid, user)
           /\ IF sinkUp
              THEN /\ Logs(1)
                   /\ activities' = createActivity(activities,
                          Activity("login", user, 0, <<users[user].username>>))
              ELSE UNCHANGED activities
           /\ resp' = Resp("google", 302, "/")
    /\ req' = [req EXCEPT ![r] = Idle]
    /\ UNCHANGED <<nodeEnv, sinkUp, entry, users, events>>

----------------------------------------------------------------------------
(* GET /auth/dev/login *)

\* the handler past its environment check
DevLoginDev(r, s, email, name, admin) ==
    LET email1 == IF email # NULL THEN email ELSE <<"dev", "@", "example.com">>
        name1 == IF name # NULL THEN name ELSE <<"Desenvolvedor">>
        username == toLowerCase(splitAt0(email1))
    IN  \E user \in getUserByEmail(email1) :
          IF user = 0
          THEN /\ req' = [req EXCEPT ![r] =
                       [pc |-> "dev_create", sid |-> s, username |-> username,
                        email |-> email1, name |-> name1, admin |-> admin]]
               /\ resp' = NoResp
               /\ UNCHANGED <<sess, activities>>
          ELSE /\ Logs(1)
               /\ sess' = login(s, user)
               /\ activities' = createActivity(activities,
                       Activity("login", user, 0, <<username>>))
               /\ resp' = Resp("dev", 302, "/")
               /\ UNCHANGED req

\* DevLoginReq without the check of the environment
DevLoginReq_AnyEnv(r, s, email, name, admin) ==
    /\ CanStart(r)
    /\ DevLoginDev(r, s, email, name, admin)
    /\ UNCHANGED <<nodeEnv, sinkUp, entry, users, events>>

DevLoginReq(r, s, email, name, admin) ==
    /\ CanStart(r)
    /\ IF nodeEnv = "production"
       THEN /\ resp' = Resp("dev", 404, "Not Found")
            /\ UNCHANGED <<req, sess, activities>>
       ELSE DevLoginDev(r, s, email, name, admin)
    /\ UNCHANGED <<nodeEnv, sinkUp, entry, users, events>>

DevLookup(r) ==
    \E s \in Sessions, email \in Emails \cup {NULL}, name \in {NULL},
       admin \in {"true", "false"} :
        DevLoginReq(r, s, email, name, admin)

DevCreate(r) ==
    /\ req[r].pc = "dev_create"
    /\ LET u == [username |-> req[r].username, email |-> req[r].email,
                 password |-> NULL, name |-> req[r].name,
                 role |-> IF req[r].admin = "true" THEN "admin" ELSE "user",
                 provider |-> "dev", providerId |-> <<"dev-account">>,
                 avatarUrl |-> NULL]
           id == Len(users) + 1
       IN  IF createUserOk(u)
           THEN /\ Logs(2)
                /\ users' = createUser(u)
                /\ activities' = createActivity(createActivity(activities,
                        Activity("register", id, 0, <<u.username>>)),
                        Activity("login", id, 0, <<u.username>>))
                /\ sess' = login(req[r].sid, id)
                /\ resp' = Resp("dev", 302, "/")
           ELSE /\ resp' = Resp("dev", 302, "/auth?error=dev_error")
                /\ UNCHANGED <<users, sess, activities>>
    /\ req' = [req EXCEPT ![r] = Idle]
    /\ UNCHANGED <<nodeEnv, sinkUp, entry, events>>

----------------------------------------------------------------------------
(* POST /api/create-admin *)

CreateAdminLookup(r) ==
      \E adminUser \in getUserByUsername(ADMIN) :
        /\ CanStart(r)
        /\ IF adminUser = 0
           THEN /\ req' = [req EXCEPT ![r] = [pc |-> "ca_create"]]
                /\ resp' = NoResp
                /\ UNCHANGED users
           ELSE IF users[adminUser].role # "admin"
           THEN /\ users' = setUserRole(adminUser, "admin")
                /\ resp' = Resp("create-admin", 200,
                                 "Usuário 'admin' promovido a administrador")
                /\ UNCHANGED req
           ELSE /\ resp' = Resp("create-admin", 200, "Administrador já existe")
                /\ UNCHANGED <<req, users>>
        /\ UNCHANGED <<nodeEnv, sinkUp, entry, sess, activities, events>>

CreateAdminCreate(r) ==
    /\ req[r].pc = "ca_create"
    /\ \E salt \in Salts :
        LET u == [username |-> ADMIN, email |-> AdminEmail,
                  password |-> hashPassword(AdminPassword, salt),
                  name |-> <<"Administrador do Sistema">>, role |-> "admin",
                  provider |-> "local", providerId |-> NULL, avatarUrl |-> NULL]
            id == Len(users) + 1
        IN  IF createUserOk(u)
            THEN /\ Logs(1)
                 /\ users' = createUser(u)
                 /\ activities' = createActivity(activities,
                        Activity("setup", id, 0, <<>>))
                 /\ resp' = Resp("create-admin", 200,
                                  "Administrador inicial criado com sucesso")
            ELSE /\ resp' = Resp("create-admin", 500,
                                  "Erro interno ao configurar administrador")
                 /\ UNCHANGED <<users, activities>>
    /\ req' = [req EXCEPT ![r] = Idle]
    /\ UNCHANGED <<nodeEnv, sinkUp, entry, sess, events>>

----------------------------------------------------------------------------
(* PATCH /api/users/:id *)

UpdateProfileReq(r, s, userId, body) ==
      LET name == body.name
          email == body.email
          avatarUrl == body.avatarUrl
      IN
        /\ CanStart(r)
        /\ IF ~isAuthenticated(s)
           THEN /\ resp' = Resp("update-profile", 401, "Não autenticado")
                /\ UNCHANGED req
           ELSE IF reqUser(s) # userId /\ users[reqUser(s)].role # "admin"
           THEN /\ resp' = Resp("update-profile", 403, "Acesso negado")
                /\ UNCHANGED req
           ELSE IF getUser(userId) = 0
           THEN /\ resp' = Resp("update-profile", 404,
                                 "Usuário não encontrado")
                /\ UNCHANGED req
           ELSE \E existingUser \in getUserByEmail(email) :
                  IF /\ email # UNDEFINED
                     /\ email # users[userId].email
                     /\ existingUser # 0 /\ existingUser # userId
                  THEN /\ resp' = Resp("update-profile", 400,
                                        "Este email já está em uso")
                       /\ UNCHANGED req
                  ELSE /\ req' = [req EXCEPT ![r] =
                               [pc |-> "pu_write", sid |-> s, userId |-> userId,
                                actor |-> reqUser(s), name |-> name,
                                email |-> email, avatarUrl |-> avatarUrl]]
                       /\ resp' = NoResp
        /\ UNCHANGED <<nodeEnv, sinkUp, entry, users, sess, activities, events>>

UpdateProfileCheck(r) ==
    \E s \in Sessions, userId \in PathIds, body \in ProfileBodies :
        UpdateProfileReq(r, s, userId, body)

\* storage.updateUser(userId, updateData): only the fields present are set
updateUser(id, name, email, avatarUrl, password) ==
    [users EXCEPT ![id] =
        [@ EXCEPT !.name = IF name # UNDEFINED THEN name ELSE @,
                  !.email = IF email # UNDEFINED THEN email ELSE @,
                  !.avatarUrl = IF avatarUrl # UNDEFINED THEN avatarUrl ELSE @,
                  !.password = IF password # UNDEFINED THEN password ELSE @]]

\* UpdateProfileWrite that hands the whole body, its role too, to updateUser
UpdateProfileWrite_WholeBody(r) ==
    /\ req[r].pc = "pu_write"
    /\ LET userId == req[r].userId
           updated == [updateUser(userId, req[r].name, req[r].email,
                                  req[r].avatarUrl, UNDEFINED)
                       EXCEPT ![userId].role = "admin"]
       IN  IF emailIdx(updated)
           THEN /\ Logs(1)
                /\ users' = updated
                /\ activities' = createActivity(activities,
                        Activity("profile_update", req[r].actor, 0,
                                 <<users[userId].username>>))
                /\ resp' = Resp("update-profile", 200, "")
           ELSE /\ resp' = Resp("update-profile", 500, "error")
                /\ UNCHANGED <<users, activities>>
    /\ req' = [req EXCEPT ![r] = Idle]
    /\ UNCHANGED <<nodeEnv, sinkUp, entry, sess, events>>

UpdateProfileWrite(r) ==
    /\ req[r].pc = "pu_write"
    /\ LET userId == req[r].userId
           updated == updateUser(userId, req[r].name, req[r].email,
                                 req[r].avatarUrl, UNDEFINED)
       IN  IF emailIdx(updated)
           THEN /\ Logs(1)
                /\ users' = updated
                /\ activities' = createActivity(activities,
                        Activity("profile_update", req[r].actor, 0,
                                 <<users[userId].username>>))
                /\ resp' = Resp("update-profile", 200, "")
           ELSE /\ resp' = Resp("update-profile", 500, "error")
                /\ UNCHANGED <<users, activities>>
    /\ req' = [req EXCEPT ![r] = Idle]
    /\ UNCHANGED <<nodeEnv, sinkUp, entry, sess, events>>

----------------------------------------------------------------------------
(* POST /api/users/:id/change-password *)

\* ChangePasswordReq without the check of the provider
ChangePasswordReq_NoProviderCheck(s, userId, currentPassword, newPassword) ==
    \E salt \in Salts :
        /\ IF ~isAuthenticated(s)
           THEN /\ resp' = Resp("change-password", 401, "Não autenticado")
                /\ UNCHANGED <<users, activities>>
           ELSE IF reqUser(s) # userId
           THEN /\ resp' = Resp("change-password", 403, "Acesso negado")
                /\ UNCHANGED <<users, activities>>
           ELSE IF /\ users[userId].password # NULL
                   /\ comparePasswordsThrows(currentPassword,
                                             users[userId].password)
           THEN /\ resp' = Resp("change-password", 500,
                        comparePasswordsResult(currentPassword,
                                               users[userId].password))
                /\ UNCHANGED <<users, activities>>
           ELSE IF \/ users[userId].password = NULL
                   \/ ~comparePasswords(currentPassword, users[userId].password)
           THEN /\ resp' = Resp("change-password", 401,
                                 "Senha atual incorreta")
                /\ UNCHANGED <<users, activities>>
           ELSE /\ Logs(1)
                /\ users' = updateUser(userId, UNDEFINED, UNDEFINED, UNDEFINED,
                                       hashPassword(newPassword, salt))
                /\ activities' = createActivity(activities,
                        Activity("password_change", userId, 0,
                                 <<users[userId].username>>))
                /\ resp' = Resp("change-password", 200,
                                 "Senha alterada com sucesso")
        /\ UNCHANGED <<nodeEnv, sinkUp, entry, sess, events, req>>

\* ChangePasswordReq that lets an admin change the password of any user
ChangePasswordReq_AdminToo(s, userId, currentPassword, newPassword) ==
    \E salt \in Salts :
        /\ IF ~isAuthenticated(s)
           THEN /\ resp' = Resp("change-password", 401, "Não autenticado")
                /\ UNCHANGED <<users, activities>>
           ELSE IF /\ reqUser(s) # userId
                   /\ (users[reqUser(s)].role # "admin" \/ getUser(userId) = 0)
           THEN /\ resp' = Resp("change-password", 403, "Acesso negado")
                /\ UNCHANGED <<users, activities>>
           ELSE IF users[userId].provider # "local"
           THEN /\ resp' = Resp("change-password", 400,
                                 "Use o provedor de autenticação original.")
                /\ UNCHANGED <<users, activities>>
           ELSE IF /\ users[userId].password # NULL
                   /\ comparePasswordsThrows(currentPassword,
                                             users[userId].password)
           THEN /\ resp' = Resp("change-password", 500,
                        comparePasswordsResult(currentPassword,
                                               users[userId].password))
                /\ UNCHANGED <<users, activities>>
           ELSE IF \/ users[userId].password = NULL
                   \/ ~comparePasswords(currentPassword, users[userId].password)
           THEN /\ resp' = Resp("change-password", 401,
                                 "Senha atual incorreta")
                /\ UNCHANGED <<users, activities>>
           ELSE IF ~sinkUp
           THEN /\ users' = updateUser(userId, UNDEFINED, UNDEFINED, UNDEFINED,
                                       hashPassword(newPassword, salt))
                /\ resp' = Resp("change-password", 500, "createActivity")
                /\ UNCHANGED activities
           ELSE /\ Logs(1)
                /\ users' = updateUser(userId, UNDEFINED, UNDEFINED, UNDEFINED,
                                       hashPassword(newPassword, salt))
                /\ activities' = createActivity(activities,
                        Activity("password_change", userId, 0,
                                 <<users[userId].username>>))
                /\ resp' = Resp("change-password", 200,
                                 "Senha alterada com sucesso")
        /\ UNCHANGED <<nodeEnv, sinkUp, entry, sess, events, req>>

ChangePasswordReq(s, userId, currentPassword, newPassword) ==
    \E salt \in Salts :
        /\ IF ~isAuthenticated(s)
           THEN /\ resp' = Resp("change-password", 401, "Não autenticado")
                /\ UNCHANGED <<users, activities>>
           ELSE IF reqUser(s) # userId
           THEN /\ resp' = Resp("change-password", 403, "Acesso negado")
                /\ UNCHANGED <<users, activities>>
           ELSE IF users[userId].provider # "local"
           THEN /\ resp' = Resp("change-password", 400,
                                 "Use o provedor de autenticação original.")
                /\ UNCHANGED <<users, activities>>
           ELSE IF /\ users[userId].password # NULL
                   /\ comparePasswordsThrows(currentPassword,
                                             users[userId].password)
           THEN /\ resp' = Resp("change-password", 500,
                        comparePasswordsResult(currentPassword,
                                               users[userId].password))
                /\ UNCHANGED <<users, activities>>
           ELSE IF \/ users[userId].password = NULL
                   \/ ~comparePasswords(currentPassword, users[userId].password)
           THEN /\ resp' = Resp("change-password", 401,
                                 "Senha atual incorreta")
                /\ UNCHANGED <<users, activities>>
           ELSE IF ~sinkUp
           THEN /\ users' = updateUser(userId, UNDEFINED, UNDEFINED, UNDEFINED,
                                       hashPassword(newPassword, salt))
                /\ resp' = Resp("change-password", 500, "createActivity")
                /\ UNCHANGED activities
           ELSE /\ Logs(1)
                /\ users' = updateUser(userId, UNDEFINED, UNDEFINED, UNDEFINED,
                                       hashPassword(newPassword, salt))
                /\ activities' = createActivity(activities,
                        Activity("password_change", userId, 0,
                                 <<users[userId].username>>))
                /\ resp' = Resp("change-password", 200,
                                 "Senha alterada com sucesso")
        /\ UNCHANGED <<nodeEnv, sinkUp, entry, sess, events, req>>

ChangePassword ==
    \E s \in Sessions, userId \in PathIds, currentPassword \in Passwords,
       newPassword \in Passwords :
        ChangePasswordReq(s, userId, currentPassword, newPassword)

----------------------------------------------------------------------------
(* POST /api/user/:id/make-admin *)

MakeAdminReq(s, userId) ==
        LET adminUser == reqUser(s)
            user == getUser(userId)
        IN  /\ IF ~isAuthenticated(s)
               THEN /\ resp' = Resp("make-admin", 401, "Não autenticado")
                    /\ UNCHANGED <<users, activities>>
               ELSE IF users[adminUser].role # "admin"
               THEN /\ resp' = Resp("make-admin", 403, "Acesso negado")
                    /\ UNCHANGED <<users, activities>>
               ELSE IF user = 0
               THEN /\ resp' = Resp("make-admin", 404,
                                     "Usuário não encontrado")
                    /\ UNCHANGED <<users, activities>>
               ELSE IF ~sinkUp
               THEN /\ users' = setUserRole(userId, "admin")
                    /\ resp' = Resp("make-admin", 500, "createActivity")
                    /\ UNCHANGED activities
               ELSE /\ Logs(1)
                    /\ users' = setUserRole(userId, "admin")
                    /\ activities' = createActivity(activities,
                            Activity("admin", adminUser, 0,
                                <<users[user].username, users[adminUser].username>>))
                    /\ resp' = Resp("make-admin", 200,
                                     "Usuário promovido a administrador com sucesso")
            /\ UNCHANGED <<nodeEnv, sinkUp, entry, sess, events, req>>

MakeAdmin == \E s \in Sessions, userId \in PathIds : MakeAdminReq(s, userId)

----------------------------------------------------------------------------
(* Events: POST /api/events/:id/approve and the event routes *)

\* the row createEvent inserts: the events table has no column for the userId
\* the route passes
NewEvent(e) == [name |-> e.name, status |-> e.status, live |-> TRUE]

getEvent(id) == IF id \in 1..Len(events) /\ events[id].live THEN id ELSE 0

\* event.userId of a row read back from the events table: undefined
eventUserId(id) == 0

updateEvent(id, fields) ==
    [events EXCEPT ![id] =
        [@ EXCEPT !.name = IF fields.name # UNDEFINED THEN fields.name ELSE @,
                  !.status = IF fields.status # "undefined" THEN fields.status ELSE @]]

deleteEvent(id) == [events EXCEPT ![id].live = FALSE]

ApproveEventReq(s, eventId) ==
        LET adminUser == reqUser(s)
            event == getEvent(eventId)
        IN  /\ IF ~isAuthenticated(s)
               THEN /\ resp' = Resp("approve", 401, "Não autenticado")
                    /\ UNCHANGED <<events, activities>>
               ELSE IF users[adminUser].role # "admin"
               THEN /\ resp' = Resp("approve", 403, "Acesso negado")
                    /\ UNCHANGED <<events, activities>>
               ELSE IF event = 0
               THEN /\ resp' = Resp("approve", 404, "Evento não encontrado")
                    /\ UNCHANGED <<events, activities>>
               ELSE /\ Logs(1)
                    /\ events' = updateEvent(eventId,
                            [name |-> UNDEFINED, status |-> "confirmed"])
                    /\ activities' = createActivity(activities,
                            Activity("approved", adminUser, event,
                                <<events[event].name, users[adminUser].username>>))
                    /\ resp' = Resp("approve", 200,
                                     "Evento aprovado com sucesso")
            /\ UNCHANGED <<nodeEnv, sinkUp, entry, users, sess, req>>

ApproveEvent ==
    \E s \in Sessions, eventId \in EventPathIds : ApproveEventReq(s, eventId)

\* CreateEventReq that lets the status of the body through
CreateEventReq_BodyStatus(s, body) ==
        /\ IF ~isAuthenticated(s)
           THEN /\ resp' = Resp("create-event", 401, "Você precisa estar logado")
                /\ UNCHANGED <<events, activities>>
           ELSE LET status == IF body.status # "undefined" THEN body.status
                              ELSE IF users[reqUser(s)].role = "admin"
                              THEN "confirmed" ELSE "pending"
                    id == Len(events) + 1
                IN  /\ Len(events) < MaxEvents
                    /\ Logs(1)
                    /\ events' = Append(events,
                            NewEvent([name |-> body.name, status |-> status]))
                    /\ activities' = createActivity(activities,
                            Activity("created", reqUser(s), id,
                                <<body.name, users[reqUser(s)].username>>))
                    /\ resp' = Resp("create-event", 201, "")
        /\ UNCHANGED <<nodeEnv, sinkUp, entry, users, sess, req>>

CreateEventReq(s, body) ==
        /\ IF ~isAuthenticated(s)
           THEN /\ resp' = Resp("create-event", 401, "Você precisa estar logado")
                /\ UNCHANGED <<events, activities>>
           ELSE LET status == IF users[reqUser(s)].role = "admin"
                              THEN "confirmed" ELSE "pending"
                    id == Len(events) + 1
                IN  /\ Len(events) < MaxEvents
                    /\ Logs(1)
                    /\ events' = Append(events,
                            NewEvent([name |-> body.name, status |-> status]))
                    /\ activities' = createActivity(activities,
                            Activity("created", reqUser(s), id,
                                <<body.name, users[reqUser(s)].username>>))
                    /\ resp' = Resp("create-event", 201, "")
        /\ UNCHANGED <<nodeEnv, sinkUp, entry, users, sess, req>>

CreateEvent == \E s \in Sessions, body \in EventBodies : CreateEventReq(s, body)

\* PUT and PATCH /api/events/:id
UpdateEventReq(op, s, id, body) ==
        LET event == getEvent(id)
        IN  /\ IF ~isAuthenticated(s)
               THEN /\ resp' = Resp(op, 401, "Você precisa estar logado")
                    /\ UNCHANGED <<events, activities>>
               ELSE IF event = 0
               THEN /\ resp' = Resp(op, 404, "Event not found")
                    /\ UNCHANGED <<events, activities>>
               ELSE IF /\ eventUserId(event) # reqUser(s)
                       /\ users[reqUser(s)].role # "admin"
               THEN /\ resp' = Resp(op, 403, "Você não tem permissão")
                    /\ UNCHANGED <<events, activities>>
               ELSE LET updatedFields ==
                            IF users[reqUser(s)].role # "admin"
                            THEN [body EXCEPT !.status = "undefined"]
                            ELSE body
                        updated == updateEvent(id, updatedFields)
                    IN  /\ Logs(1)
                        /\ events' = updated
                        /\ activities' = createActivity(activities,
                                Activity("updated", reqUser(s), id,
                                    <<updated[id].name, users[reqUser(s)].username>>))
                        /\ resp' = Resp(op, 200, "")
            /\ UNCHANGED <<nodeEnv, sinkUp, entry, users, sess, req>>

UpdateEvent ==
    \E op \in {"put-event", "patch-event"}, s \in Sessions, id \in EventPathIds,
       body \in EventBodies :
        UpdateEventReq(op, s, id, body)

DeleteEventReq(s, id) ==
        LET event == getEvent(id)
        IN  /\ IF ~isAuthenticated(s)
               THEN /\ resp' = Resp("delete-event", 401, "Você precisa estar logado")
                    /\ UNCHANGED <<events, activities>>
               ELSE IF event = 0
               THEN /\ resp' = Resp("delete-event", 404, "Event not found")
                    /\ UNCHANGED <<events, activities>>
               ELSE IF /\ eventUserId(event) # reqUser(s)
                       /\ users[reqUser(s)].role # "admin"
               THEN /\ resp' = Resp("delete-event", 403, "Você não tem permissão")
                    /\ UNCHANGED <<events, activities>>
               ELSE /\ Logs(1)
                    /\ events' = deleteEvent(id)
                    /\ activities' = createActivity(activities,
                            Activity("deleted", reqUser(s), id,
                                <<events[event].name, users[reqUser(s)].username>>))
                    /\ resp' = Resp("delete-event", 204, "")
            /\ UNCHANGED <<nodeEnv, sinkUp, entry, users, sess, req>>

DeleteEvent == \E s \in Sessions, id \in EventPathIds : DeleteEventReq(s, id)

----------------------------------------------------------------------------
(* POST /api/upload, GET /api/activities, /api/stats, /api/categories/counts *)

\* UploadReq without the middleware that turns away a request with no user:
\* reading req.user then throws, which the handler answers with 500
UploadReq_NoAuthGate(s, file) ==
        /\ IF ~file
           THEN /\ resp' = Resp("upload", 400, "Nenhum arquivo enviado")
                /\ UNCHANGED activities
           ELSE IF ~isAuthenticated(s)
           THEN /\ resp' = Resp("upload", 500, "Falha ao fazer upload da imagem")
                /\ UNCHANGED activities
           ELSE /\ Logs(1)
                /\ activities' = createActivity(activities,
                        Activity("upload", reqUser(s), 0,
                                 <<users[reqUser(s)].username>>))
                /\ resp' = Resp("upload", 200, "Imagem enviada com sucesso")
        /\ UNCHANGED <<nodeEnv, sinkUp, entry, users, sess, events, req>>

UploadReq(s, file) ==
        /\ IF ~isAuthenticated(s)
           THEN /\ resp' = Resp("upload", 401, "Você precisa estar logado")
                /\ UNCHANGED activities
           ELSE IF ~file
           THEN /\ resp' = Resp("upload", 400, "Nenhum arquivo enviado")
                /\ UNCHANGED activities
           ELSE /\ Logs(1)
                /\ activities' = createActivity(activities,
                        Activity("upload", reqUser(s), 0,
                                 <<users[reqUser(s)].username>>))
                /\ resp' = Resp("upload", 200, "Imagem enviada com sucesso")
        /\ UNCHANGED <<nodeEnv, sinkUp, entry, users, sess, events, req>>

Upload == \E s \in Sessions, file \in BOOLEAN : UploadReq(s, file)

\* AdminReadReq without the check of the role
AdminReadReq_NoRoleCheck(op, s) ==
        /\ resp' = IF ~isAuthenticated(s)
                   THEN Resp(op, 401, "Não autenticado")
                   ELSE Resp(op, 200, "")
        /\ UNCHANGED <<nodeEnv, sinkUp, entry, users, sess, activities, events, req>>

\* the three read-only routes for administrators
\* AdminReadReq that decides on the role the user had when the server was set
\* up, not on the one stored now
AdminReadReq_RoleAtSetup(op, s) ==
        /\ resp' = IF ~isAuthenticated(s)
                   THEN Resp(op, 401, "Não autenticado")
                   ELSE IF reqUser(s) > 1
                   THEN Resp(op, 403, "Acesso negado")
                   ELSE Resp(op, 200, "")
        /\ UNCHANGED <<nodeEnv, sinkUp, entry, users, sess, activities, events, req>>

AdminReadReq(op, s) ==
        /\ resp' = IF ~isAuthenticated(s)
                   THEN Resp(op, 401, "Não autenticado")
                   ELSE IF users[reqUser(s)].role # "admin"
                   THEN Resp(op, 403, "Acesso negado")
                   ELSE Resp(op, 200, "")
        /\ UNCHANGED <<nodeEnv, sinkUp, entry, users, sess, activities, events, req>>

AdminRead ==
    \E op \in {"activities", "stats", "category-counts"}, s \in Sessions :
        AdminReadReq(op, s)

----------------------------------------------------------------------------
(* The serverless entry point: initApp and handler *)

\* handler calls initApp, which runs up to its await: it returns at once when
\* isInitialized is set, and else registers the body parsers and, in
\* registerRoutes, the routes
HandlerStart(i) ==
    /\ entry.pc[i] = "new"
    /\ entry' = IF entry.isInitialized
                THEN [entry EXCEPT !.pc[i] = "app"]
                ELSE [entry EXCEPT !.parsers = @ + 1, !.routes = @ + 1,
                                   !.pc[i] = "await"]
    /\ UNCHANGED <<nodeEnv, sinkUp, users, sess, activities, events, req, resp>>

\* initApp after `await registerRoutes(app)`: it registers the error handler
\* and sets isInitialized
InitAppResume(i) ==
    /\ entry.pc[i] = "await"
    /\ entry' = [entry EXCEPT !.errorHandlers = @ + 1, !.isInitialized = TRUE,
                              !.pc[i] = "app"]
    /\ UNCHANGED <<nodeEnv, sinkUp, users, sess, activities, events, req, resp>>

\* handler after `await initApp()`: the request is given to the app
HandlerApp(i) ==
    /\ entry.pc[i] = "app"
    /\ entry' = [entry EXCEPT !.pc[i] = "done"]
    /\ UNCHANGED <<nodeEnv, sinkUp, users, sess, activities, events, req, resp>>

NextEntry ==
    \E i \in Invocations : HandlerStart(i) \/ InitAppResume(i) \/ HandlerApp(i)

SpecEntry == Init /\ [][NextEntry]_vars

----------------------------------------------------------------------------
(* The server.  Under Spec requests are handled one at a time, each through *)
(* all its segments.                                                        *)

Quiet == \A r \in Slots : req[r].pc = "idle"

Segments(r) ==
    \/ RegisterCheckUsername(r)
    \/ RegisterCheckEmail(r)
    \/ RegisterCreate(r)
    \/ GoogleLookup(r)
    \/ GoogleCreate(r)
    \/ GoogleLogin(r)
    \/ DevLookup(r)
    \/ DevCreate(r)
    \/ CreateAdminLookup(r)
    \/ CreateAdminCreate(r)
    \/ UpdateProfileCheck(r)
    \/ UpdateProfileWrite(r)

Atomic ==
    \/ Login
    \/ Logout
    \/ CurrentUser
    \/ ChangePassword
    \/ MakeAdmin
    \/ ApproveEvent
    \/ CreateEvent
    \/ UpdateEvent
    \/ DeleteEvent
    \/ Upload
    \/ AdminRead

Next ==
    \/ Segments(1)
    \/ Quiet /\ Atomic

Spec == Init /\ [][Next]_vars

\* Requests that create or change user rows, two handled at a time: their
\* segments interleave in every order.
Writers(r) ==
    \/ RegisterCheckUsername(r)
    \/ RegisterCheckEmail(r)
    \/ RegisterCreate(r)
    \/ GoogleLookup(r)
    \/ GoogleCreate(r)
    \/ GoogleLogin(r)
    \/ CreateAdminLookup(r)
    \/ CreateAdminCreate(r)
    \/ UpdateProfileCheck(r)
    \/ UpdateProfileWrite(r)

NextRace == \E r \in Slots : Writers(r)

SpecRace == Init /\ [][NextRace]_vars

\* The server in a production configuration
NextProd ==
    \/ RegisterCheckUsername(1)
    \/ RegisterCheckEmail(1)
    \/ RegisterCreate(1)
    \/ CreateAdminLookup(1)
    \/ CreateAdminCreate(1)
    \/ DevLookup(1)
    \/ Quiet /\ Login

SpecProd == InitProd /\ [][NextProd]_vars

\* The server once it has been set up: create-admin has made the
\* administrator, a user has registered, and the administrator is logged in on
\* the first session.  Spec reaches this state from the fresh database with
\* three records in the log; the log here starts anew.
SeedUsers ==
    << [username |-> ADMIN, email |-> AdminEmail,
        password |-> hashPassword(AdminPassword, "salt1"),
        name |-> <<"Administrador do Sistema">>, role |-> "admin",
        provider |-> "local", providerId |-> NULL, avatarUrl |-> NULL],
       [username |-> <<"j", ".", "d">>, email |-> <<"JD", "@", "x.com">>,
        password |-> hashPassword("pw", "salt1"),
        name |-> NULL, role |-> "user", provider |-> "local",
        providerId |-> NULL, avatarUrl |-> NULL] >>

InitSeeded ==
    /\ nodeEnv = "development"
    /\ sinkUp = TRUE
    /\ entry = Loaded
    /\ users = SeedUsers
    /\ sess = [s \in Sessions |-> IF s = "s1" THEN 1 ELSE 0]
    /\ activities = <<>>
    /\ events = <<>>
    /\ req = [r \in Slots |-> Idle]
    /\ resp = NoResp

\* the requests of a server that has been set up: the Google callback, the
\* login and the routes that ask for a logged-in user
NextSeeded ==
    \/ GoogleLookup(1)
    \/ GoogleCreate(1)
    \/ GoogleLogin(1)
    \/ UpdateProfileCheck(1)
    \/ UpdateProfileWrite(1)
    \/ Quiet /\ Atomic

SpecSeeded == InitSeeded /\ [][NextSeeded]_vars

\* The server of InitSeeded after a Google callback of a profile named
\* "Admin" that carries no email: two users are named admin
DupUsers ==
    Append(SeedUsers,
        [username |-> toLowerCase(replaceWs(<<"Admin">>)),
         email |-> <<"g0", "@", "google.com">>, password |-> NULL,
         name |-> <<"Admin">>, role |-> "user", provider |-> "google",
         providerId |-> <<"g0">>, avatarUrl |-> NULL])

InitDup ==
    /\ nodeEnv = "development"
    /\ sinkUp = TRUE
    /\ entry = Loaded
    /\ users = DupUsers
    /\ sess = [s \in Sessions |-> IF s = "s1" THEN 1 ELSE 0]
    /\ activities = <<>>
    /\ events = <<>>
    /\ req = [r \in Slots |-> Idle]
    /\ resp = NoResp

SpecDup == InitDup /\ [][NextSeeded]_vars

----------------------------------------------------------------------------
(* A stored password that may be malformed *)

\* The server that has been set up, with a stored password of the second user
\* that may be no output of hashPassword: no separator, an empty, a truncated
\* or a longer digest, a digest that is no hex, an empty salt.
StoredHashes ==
    LET salt == saltText("salt1")
        hex == scryptHex("pw", salt)
    IN  { hashPassword("pw", "salt1"),
          hex,
          <<Dot>> \o salt,
          <<hex[1], Dot>> \o salt,
          hex \o <<hex[1], Dot>> \o salt,
          <<<<"zz">>, hex[2], Dot>> \o salt,
          hex \o <<Dot>> }

\* a stored password that hashPassword does not make
Malformed(stored) ==
    \A password \in Passwords, salt \in Salts :
        stored # hashPassword(password, salt)

InitHash ==
    /\ nodeEnv = "development"
    /\ sinkUp = TRUE
    /\ entry = Loaded
    /\ \E stored \in StoredHashes :
          users = [SeedUsers EXCEPT ![2].password = stored]
    /\ sess = [s \in Sessions |-> IF s = "s1" THEN 1 ELSE 0]
    /\ activities = <<>>
    /\ events = <<>>
    /\ req = [r \in Slots |-> Idle]
    /\ resp = NoResp

NextHash ==
    \/ Login
    \/ Logout
    \/ CurrentUser
    \/ ChangePassword

SpecHash == InitHash /\ [][NextHash]_vars

----------------------------------------------------------------------------
(* The sink of the activities is down *)

\* The administrator exists and is logged in on the first session, and every
\* createActivity rejects.
InitSink ==
    /\ nodeEnv = "development"
    /\ sinkUp = FALSE
    /\ entry = Loaded
    /\ users = <<SeedUsers[1]>>
    /\ sess = [s \in Sessions |-> IF s = "s1" THEN 1 ELSE 0]
    /\ activities = <<>>
    /\ events = <<>>
    /\ req = [r \in Slots |-> Idle]
    /\ resp = NoResp

\* the requests of the authentication
NextSink ==
    \/ RegisterCheckUsername(1)
    \/ RegisterCheckEmail(1)
    \/ RegisterCreate(1)
    \/ GoogleLookup(1)
    \/ GoogleCreate(1)
    \/ GoogleLogin(1)
    \/ Quiet /\ Login
    \/ Quiet /\ Logout
    \/ Quiet /\ CurrentUser
    \/ Quiet /\ ChangePassword
    \/ Quiet /\ MakeAdmin

SpecSink == InitSink /\ [][NextSink]_vars

----------------------------------------------------------------------------
(* Sessions that were established earlier *)

\* the id of a user whose row is gone from the users table
StaleId == 9

\* The server that has been set up, the administrator logged in on the first
\* session; the second session was established by the second user, or by a
\* user whose row is gone.
InitStale ==
    /\ nodeEnv = "development"
    /\ sinkUp = TRUE
    /\ entry = Loaded
    /\ users = SeedUsers
    /\ \E id \in {2, StaleId} :
          sess = [s \in Sessions |-> IF s = "s1" THEN 1 ELSE id]
    /\ activities = <<>>
    /\ events = <<>>
    /\ req = [r \in Slots |-> Idle]
    /\ resp = NoResp

NextStale ==
    \/ Login
    \/ Logout
    \/ CurrentUser
    \/ MakeAdmin
    \/ AdminRead
    \/ Upload

SpecStale == InitStale /\ [][NextStale]_vars

----------------------------------------------------------------------------
(* Properties *)

\* C1: when Google callbacks for one identity that has no user yet are handled
\* together, there is never more than one user with that provider and
\* provider id, and every one of the callbacks ends with the redirect and with
\* its session carrying that user.
C1_OneUserBothSessions ==
    /\ [](\A id \in GoogleIds :
            Cardinality({i \in UserIds : /\ users[i].provider = "google"
                                         /\ users[i].providerId = id}) <= 1)
    /\ [][\A r \in Slots :
            (req[r].pc \in {"g_create", "g_login"} /\ req'[r].pc = "idle")
            => /\ resp' = Resp("google", 302, "/")
               /\ sess'[req[r].sid] \in 1..Len(users')
               /\ users'[sess'[req[r].sid]].provider = "google"]_vars

\* C2: a user's role goes from user to admin only in a step of make-admin
\* on that user, asked for on a session whose user is an admin.
C2_RoleRaisedOnlyByMakeAdmin ==
    [][\A i \in UserIds :
        (users[i].role = "user" /\ users'[i].role = "admin")
        => \E s \in Sessions :
              /\ isAuthenticated(s)
              /\ users[reqUser(s)].role = "admin"
              /\ MakeAdminReq(s, i)]_vars

\* C3: in production every request to the dev login is answered 404 Not Found
\* and leaves the users, the sessions and the activity log as they were.
C3_DevLoginOffInProduction ==
    [][\A s \in Sessions, email \in Emails \cup {NULL}, admin \in {"true", "false"} :
        (nodeEnv = "production" /\ DevLoginReq(1, s, email, NULL, admin))
        => /\ resp' = Resp("dev", 404, "Not Found")
           /\ UNCHANGED <<users, sess, activities, req>>]_vars

\* C3 witness: production, a user whose email the request names exists, and
\* the dev login has answered 404.
C3_Witness ==
    /\ nodeEnv = "production"
    /\ resp = Resp("dev", 404, "Not Found")
    /\ \E i \in UserIds : users[i].email \in Emails

\* C4: no two users have the same username.
C4_UsernamesUnique ==
    \A i, j \in UserIds : users[i].username = users[j].username => i = j

\* C5: no two users have the same email.
C5_EmailsUnique ==
    \A i, j \in UserIds : i # j => users[i].email # users[j].email

\* C5 witness: two users exist and a write of a third row's email, decided on
\* before the second user was written, has been turned down.
C5_Witness ==
    /\ Len(users) = 2
    /\ resp.op \in {"register", "google", "update-profile", "create-admin"}
    /\ resp.status = 500

\* A step of a route is told by the route's name in the response it sends.
\*
\* C6: a login that names no user, a login with a wrong password and a login
\* on a user that has no password are all answered 401 with the one message,
\* and leave the users, the sessions and the activity log as they were.
C6_FailedLoginsAlike ==
    [][\A s \in Sessions, username \in LoginUsernames, password \in Passwords :
        (/\ resp'.op = "login"
         /\ \A i \in UserIds :
                users[i].username = username
                => \/ users[i].password = NULL
                   \/ ~comparePasswords(password, users[i].password)
         /\ LoginReq(s, username, password))
        => /\ resp' = Resp("login", 401, "Credenciais inválidas")
           /\ UNCHANGED <<users, sess, activities>>]_vars

\* C6 witness: the only user with a username of the login form has no
\* password, and a login has been answered 401.
C6_Witness ==
    /\ resp = Resp("login", 401, "Credenciais inválidas")
    /\ \E i \in UserIds : users[i].username \in LoginUsernames
    /\ \A i \in UserIds : users[i].password = NULL

\* C7: a login is answered with a session for a user of that username exactly
\* when some user has that username and a password the supplied one verifies
\* against; otherwise it is answered 401 with the generic message and leaves
\* the sessions and the activity log as they were.
C7_LoginIffCredentials ==
    [][\A s \in Sessions, username \in LoginUsernames, password \in Passwords :
        LoginReq(s, username, password)
        => IF \E i \in UserIds :
                  /\ users[i].username = username
                  /\ users[i].password # NULL
                  /\ comparePasswords(password, users[i].password)
           THEN /\ resp' = Resp("login", 200, "")
                /\ sess'[s] \in UserIds
                /\ users[sess'[s]].username = username
           ELSE /\ resp' = Resp("login", 401, "Credenciais inválidas")
                /\ UNCHANGED <<sess, activities>>]_vars

\* C8: on make-admin, approve and the three read-only routes for
\* administrators, a session whose user is not an admin is answered 403, a
\* session without user 401, and either way the users, the events and the
\* activity log stay as they were.
C8_NonAdminForbidden ==
    [][\A s \in Sessions :
        LET status == IF ~isAuthenticated(s) THEN 401
                      ELSE IF users[reqUser(s)].role # "admin" THEN 403 ELSE 0
            Denied == /\ resp'.op # "none"
                      /\ resp'.status = status
                      /\ UNCHANGED <<users, events, activities, sess>>
        IN  status # 0
            => CASE resp'.op = "make-admin" ->
                      \A userId \in PathIds : MakeAdminReq(s, userId) => Denied
                 [] resp'.op = "approve" ->
                      \A eventId \in EventPathIds :
                          ApproveEventReq(s, eventId) => Denied
                 [] resp'.op \in {"activities", "stats", "category-counts"} ->
                      AdminReadReq(resp'.op, s) => Denied
                 [] OTHER -> TRUE]_vars

\* C8 witness: a user who is no admin is logged in, an event is pending, and
\* its approval has been answered 403.
C8_Witness ==
    /\ resp = Resp("approve", 403, "Acesso negado")
    /\ \E s \in Sessions : isAuthenticated(s) /\ users[reqUser(s)].role = "user"
    /\ \E e \in 1..Len(events) : events[e].live /\ events[e].status = "pending"

\* C9: on every route that asks for a logged-in user, a session without user
\* is answered 401 and the users, the events and the activity log stay as they
\* were.
C9_NoIdentityUnauthorized ==
    [][\A s \in Sessions :
        LET Denied == /\ resp'.op # "none"
                      /\ resp'.status = 401
                      /\ UNCHANGED <<users, events, activities, sess, req>>
        IN  ~isAuthenticated(s)
            => CASE resp'.op = "make-admin" ->
                      \A userId \in PathIds : MakeAdminReq(s, userId) => Denied
                 [] resp'.op = "update-profile" ->
                      \A userId \in PathIds, body \in ProfileBodies :
                          UpdateProfileReq(1, s, userId, body) => Denied
                 [] resp'.op = "change-password" ->
                      \A userId \in PathIds, cur \in Passwords, new \in Passwords :
                          ChangePasswordReq(s, userId, cur, new) => Denied
                 [] resp'.op = "approve" ->
                      \A id \in EventPathIds : ApproveEventReq(s, id) => Denied
                 [] resp'.op = "delete-event" ->
                      \A id \in EventPathIds : DeleteEventReq(s, id) => Denied
                 [] resp'.op \in {"put-event", "patch-event"} ->
                      \A id \in EventPathIds, body \in EventBodies :
                          UpdateEventReq(resp'.op, s, id, body) => Denied
                 [] resp'.op = "create-event" ->
                      \A body \in EventBodies : CreateEventReq(s, body) => Denied
                 [] resp'.op = "upload" ->
                      \A file \in BOOLEAN : UploadReq(s, file) => Denied
                 [] resp'.op \in {"activities", "stats", "category-counts"} ->
                      AdminReadReq(resp'.op, s) => Denied
                 [] OTHER -> TRUE]_vars

\* C9 witness: an event exists, and its deletion asked for on a session without
\* user has been answered 401.
C9_Witness ==
    /\ resp = Resp("delete-event", 401, "Você precisa estar logado")
    /\ \E s \in Sessions : ~isAuthenticated(s)
    /\ \E e \in 1..Len(events) : events[e].live

\* C10 as stated: make-admin by an admin on an existing user makes that user
\* an admin, changes nothing else of the users, and appends one activity
\* record that refers to the id of the admin and to the id of the user.
C10_ActivityRefersToBothIds ==
    [][\A s \in Sessions, userId \in PathIds :
        (/\ resp'.op = "make-admin"
         /\ isAuthenticated(s)
         /\ users[reqUser(s)].role = "admin"
         /\ getUser(userId) # 0
         /\ MakeAdminReq(s, userId))
        => /\ users' = [users EXCEPT ![userId].role = "admin"]
           /\ Len(activities') = Len(activities) + 1
           /\ SubSeq(activities', 1, Len(activities)) = activities
           /\ {reqUser(s), userId} \subseteq {activities'[Len(activities')].userId}]_vars

\* C10 as the code has it: make-admin by an admin on an existing user makes
\* that user an admin, changes nothing else of the users, and appends one
\* activity record, of action admin, whose userId is the id of the admin and
\* whose description names the user and the admin by username.
C10_ActivityOfActorNamesTarget ==
    [][\A s \in Sessions, userId \in PathIds :
        (/\ resp'.op = "make-admin"
         /\ isAuthenticated(s)
         /\ users[reqUser(s)].role = "admin"
         /\ getUser(userId) # 0
         /\ MakeAdminReq(s, userId))
        => /\ users' = [users EXCEPT ![userId].role = "admin"]
           /\ Len(activities') = Len(activities) + 1
           /\ SubSeq(activities', 1, Len(activities)) = activities
           /\ LET a == activities'[Len(activities')]
              IN  /\ a.action = "admin"
                  /\ a.userId = reqUser(s)
                  /\ a.eventId = 0
                  /\ a.description = <<users[userId].username,
                                       users[reqUser(s)].username>>]_vars

\* C10 witness: an admin has made the second user, who was none, an admin.
C10_Witness ==
    /\ resp = Resp("make-admin", 200, "Usuário promovido a administrador com sucesso")
    /\ activities # <<>>
    /\ activities[Len(activities)].action = "admin"
    /\ activities[Len(activities)].userId = 1
    /\ Len(users) >= 2 /\ users[2].role = "admin"

\* C11: a logout is answered 200 and leaves its session without user, also
\* when the session had none; and on a session without user the current-user
\* request is answered 401.
C11_LogoutThenUnauthenticated ==
    [][\A s \in Sessions :
        /\ (resp'.op = "logout" /\ LogoutReq(s))
           => /\ resp' = Resp("logout", 200, "OK")
              /\ sess'[s] \notin 1..Len(users')
        /\ (resp'.op = "user" /\ ~isAuthenticated(s) /\ CurrentUserReq(s))
           => resp' = Resp("user", 401, "Não autenticado")]_vars

\* C11 witness: the administrator has logged out of the first session, the
\* other session has a user, and a current-user request has been answered 401.
C11_Witness ==
    /\ resp = Resp("user", 401, "Não autenticado")
    /\ sess["s1"] = 0 /\ sess["s2"] # 0
    /\ \E k \in 1..Len(activities) : activities[k].action = "logout"

\* C19: a logout appends one record of action logout, for the user of its
\* session, when the session has a user, and nothing when it has none; no other
\* step appends a record of action logout.
C19_LogoutLoggedIffIdentity ==
    [][/\ \A s \in Sessions :
            (resp'.op = "logout" /\ LogoutReq(s))
            => IF isAuthenticated(s)
               THEN /\ Len(activities') = Len(activities) + 1
                    /\ SubSeq(activities', 1, Len(activities)) = activities
                    /\ activities'[Len(activities')].action = "logout"
                    /\ activities'[Len(activities')].userId = reqUser(s)
               ELSE UNCHANGED activities
       /\ (/\ Len(activities') > Len(activities)
           /\ activities'[Len(activities')].action = "logout")
          => resp'.op = "logout"]_vars

\* C19 witness: a logout on a session without user has been answered, and the
\* log holds a record, none of a logout.
C19_Witness ==
    /\ resp = Resp("logout", 200, "OK")
    /\ activities # <<>>
    /\ \A k \in 1..Len(activities) : activities[k].action # "logout"

\* C12: once a user has changed the password from p1 to another p2, a login
\* with the user's username and p1 fails and one with p2 succeeds, whichever
\* row the lookup by that username returns.
C12_OldPasswordOutNewIn ==
    [][\A s \in Sessions, userId \in PathIds, p1 \in Passwords, p2 \in Passwords :
        (/\ resp' = Resp("change-password", 200, "Senha alterada com sucesso")
         /\ p1 # p2
         /\ ChangePasswordReq(s, userId, p1, p2))
        => \A i \in 1..Len(users') :
              users'[i].username = users[userId].username
              => /\ users'[i].password # NULL
                 /\ comparePasswords(p2, users'[i].password)
                 /\ ~comparePasswords(p1, users'[i].password)]_vars

\* C13: a registration that ends while a user holds its username or its email
\* is answered 400 and leaves the users, the sessions and the activity log as
\* they were, also when that user was written after the registration had
\* passed its own checks.
C13_ConflictAnswered400 ==
    [][\A r \in Slots :
        (/\ req[r].pc \in {"reg_email", "reg_create"}
         /\ req'[r].pc = "idle"
         /\ \E i \in UserIds : \/ users[i].username = req[r].username
                                \/ users[i].email = req[r].email)
        => /\ resp'.op = "register"
           /\ resp'.status = 400
           /\ UNCHANGED <<users, sess, activities>>]_vars

\* C14: the user a registration creates has role user and provider local,
\* whatever role the request's body asks for, and the user a Google callback
\* creates has role user.
C14_CreatedWithRoleUser ==
    [][\A r \in Slots :
        /\ (/\ req[r].pc = "reg_create"
            /\ req'[r].pc = "idle"
            /\ Len(users') = Len(users) + 1)
           => /\ users'[Len(users')].role = "user"
              /\ users'[Len(users')].provider = "local"
        /\ (/\ req[r].pc = "g_create"
            /\ req'[r].pc = "g_login"
            /\ Len(users') = Len(users) + 1)
           => users'[Len(users')].role = "user"]_vars

\* C14 witness: a registration whose body asked for the role admin and a
\* Google callback have each created a user.
C14_Witness ==
    /\ \E i \in UserIds : users[i].provider = "local" /\ users[i].role = "user"
    /\ \E i \in UserIds : users[i].provider = "google" /\ users[i].role = "user"
    /\ \A k \in 1..Len(activities) : activities[k].action = "register"

\* C15: outside production, a dev login that is answered with the redirect to
\* the home page has given its session a user whose provider is dev.
C15_DevSessionOnlyForDevAccount ==
    [][\A s \in Sessions, email \in Emails \cup {NULL}, admin \in {"true", "false"} :
        (/\ resp' = Resp("dev", 302, "/")
         /\ DevLoginReq(1, s, email, NULL, admin))
        => /\ sess'[s] \in 1..Len(users')
           /\ users'[sess'[s]].provider = "dev"]_vars

\* C16: no two users with a provider id have the same provider and provider
\* id.
C16_ProviderIdsUnique ==
    \A i, j \in UserIds :
        (/\ users[i].providerId # NULL
         /\ users[i].provider = users[j].provider
         /\ users[i].providerId = users[j].providerId)
        => i = j

C20_NonLocalPasswordChangeRefused ==
    [][resp'.op = "change-password"
       => \A s \in Sessions, currentPassword \in Passwords,
             newPassword \in Passwords :
            (/\ isAuthenticated(s)
             /\ users[reqUser(s)].provider # "local"
             /\ ChangePasswordReq(s, reqUser(s), currentPassword, newPassword))
            => /\ resp' = Resp("change-password", 400,
                                "Use o provedor de autenticação original.")
               /\ resp' # Resp("change-password", 401, "Senha atual incorreta")
               /\ UNCHANGED <<users, activities>>]_vars

\* C20 witness: a session holds a Google user without password and the last
\* answer is the refusal that names the original provider.
C20_Witness ==
    /\ resp = Resp("change-password", 400,
                   "Use o provedor de autenticação original.")
    /\ \E s \in Sessions :
          /\ isAuthenticated(s)
          /\ users[reqUser(s)].provider = "google"
          /\ users[reqUser(s)].password = NULL

\* C21: a change of password asked by a local user for its own account with a
\* current password that does not verify is answered with status 400, not 401,
\* and the stored password is unchanged.
C21_WrongCurrentPasswordIs400 ==
    [][resp'.op = "change-password"
       => \A s \in Sessions, currentPassword \in Passwords,
             newPassword \in Passwords :
            (/\ isAuthenticated(s)
             /\ users[reqUser(s)].provider = "local"
             /\ users[reqUser(s)].password # NULL
             /\ ~comparePasswords(currentPassword, users[reqUser(s)].password)
             /\ ChangePasswordReq(s, reqUser(s), currentPassword, newPassword))
            => /\ resp'.status = 400
               /\ resp'.status # 401
               /\ users'[reqUser(s)].password = users[reqUser(s)].password]_vars

\* C22: comparePasswords returns false, and does not reject, for every stored
\* password that is malformed, and a login against a user with such a stored
\* password is answered with the 401 of every failed login.
C22_MalformedHashIsAuthFailure ==
    [][resp'.op = "login"
       => \A s \in Sessions, username \in LoginUsernames,
             password \in Passwords :
            \A row \in getUserByUsername(username) :
                (/\ row # 0
                 /\ users[row].password # NULL
                 /\ Malformed(users[row].password)
                 /\ LoginReq(s, username, password))
                => /\ comparePasswordsResult(password, users[row].password)
                      = "false"
                   /\ resp' = Resp("login", 401, "Credenciais inválidas")]_vars

\* C23: while the sink of the activities fails, a registration, a login, a
\* Google callback, a change of password and a promotion that make their
\* change of the users or of the sessions still answer with their success, and
\* a registration that has created its user logs it in.
C23_SinkFailureKeepsOutcome ==
    [][~sinkUp
       => /\ (resp'.op \in {"register", "login", "google", "change-password",
                            "make-admin"}
              /\ (users' # users \/ sess' # sess))
             => resp'.status \in {200, 201, 302}
          /\ \A r \in Slots :
                (req[r].pc = "reg_create" /\ Len(users') > Len(users))
                => sess'[req[r].sid] = Len(users')]_vars

\* C24: the stored password of a user changes only by a change of password
\* that is asked on a session of that user, gives the password the user then
\* has, and is answered 200; no request of another user and no update of a
\* profile changes it.
C24_PasswordChangedOnlyByOwner ==
    [][users' # users
       => \A i \in 1..Len(users) :
            users'[i].password # users[i].password
            => \E s \in Sessions, currentPassword \in Passwords,
                  newPassword \in Passwords :
                 /\ reqUser(s) = i
                 /\ users[i].password # NULL
                 /\ comparePasswords(currentPassword, users[i].password)
                 /\ ChangePasswordReq(s, i, currentPassword, newPassword)
                 /\ resp' = Resp("change-password", 200,
                                  "Senha alterada com sucesso")]_vars

\* C24 witness: the second user has changed its password on its session, and
\* the administrator is logged in on the other.
C24_Witness ==
    /\ resp = Resp("change-password", 200, "Senha alterada com sucesso")
    /\ sess["s1"] = 1 /\ sess["s2"] = 2
    /\ users[2].password # SeedUsers[2].password
    /\ users[1].password = SeedUsers[1].password

C26_ProfileUpdateFrame ==
    [][\A r \in Slots :
        /\ (req[r].pc = "idle" /\ req'[r].pc = "pu_write")
           => \/ req'[r].actor = req'[r].userId
              \/ users[req'[r].actor].role = "admin"
        /\ (resp'.op = "update-profile" /\ req[r].pc = "idle")
           => \A s \in Sessions, userId \in PathIds, body \in ProfileBodies :
                (/\ isAuthenticated(s)
                 /\ reqUser(s) # userId
                 /\ users[reqUser(s)].role # "admin"
                 /\ UpdateProfileReq(r, s, userId, body))
                => /\ resp'.status = 403
                   /\ UNCHANGED <<users, req>>
        /\ (req[r].pc = "pu_write" /\ req'[r].pc = "idle")
           => LET T == req[r].userId
              IN  /\ Len(users') = Len(users)
                  /\ \A i \in 1..Len(users) : i # T => users'[i] = users[i]
                  /\ users'[T].role = users[T].role
                  /\ users'[T].username = users[T].username
                  /\ users'[T].password = users[T].password
                  /\ users'[T].provider = users[T].provider
                  /\ users'[T].providerId = users[T].providerId]_vars

\* C26 witness: the administrator has updated the profile of the second user,
\* who has a new name and picture and is still a user.
C26_Witness ==
    /\ resp = Resp("update-profile", 200, "")
    /\ activities # <<>>
    /\ activities[Len(activities)].action = "profile_update"
    /\ activities[Len(activities)].userId = 1
    /\ users[2].name \in Names /\ users[2].avatarUrl \in Avatars
    /\ users[2].role = "user"
    /\ users[1] = SeedUsers[1]

\* C27: a logout ends the session it is asked on and no other: every other
\* session, of the same user or of another, resolves to the user it resolved
\* to before, and no user is changed.
C27_LogoutEndsOnlyItsSession ==
    [][resp'.op = "logout"
       => \A s \in Sessions :
            LogoutReq(s)
            => /\ users' = users
               /\ \A q \in Sessions \ {s} :
                     /\ sess'[q] = sess[q]
                     /\ (sess[q] \in 1..Len(users)) = (sess'[q] \in 1..Len(users'))]_vars

\* C27 witness: the administrator, logged in on both sessions, has logged out
\* of the first and is still the user of the second.
C27_Witness ==
    /\ resp = Resp("logout", 200, "OK")
    /\ sess = [s \in Sessions |-> IF s = "s1" THEN 0 ELSE 1]
    /\ Len(activities) = 2
    /\ activities[1].action = "login" /\ activities[1].userId = 1
    /\ activities[2].action = "logout" /\ activities[2].userId = 1

\* C28: an update (PUT or PATCH) or a deletion of an event asked by a logged-in
\* user who is no admin is let through if and only if that user created the
\* event.
C28_CreatorMayEditAndDelete ==
    [][resp'.op \in {"put-event", "patch-event", "delete-event"}
       => \A s \in Sessions, id \in EventPathIds :
            LET creator ==
                    \E k \in 1..Len(activities) :
                        /\ activities[k].action = "created"
                        /\ activities[k].eventId = id
                        /\ activities[k].userId = reqUser(s)
            IN  (/\ isAuthenticated(s)
                 /\ users[reqUser(s)].role # "admin"
                 /\ getEvent(id) # 0
                 /\ \/ DeleteEventReq(s, id)
                    \/ \E body \in EventBodies :
                          UpdateEventReq(resp'.op, s, id, body))
                => (resp'.status \in {200, 204} <=> creator)]_vars

\* C29: an event created by a user who is no admin starts pending whatever
\* status the body holds, and the status of an event changes only by a request
\* of an admin: an approval, or a PUT or PATCH of an admin.
C29_StatusOnlyByAdmin ==
    [][events' # events
       => /\ Len(events') > Len(events)
             => \A s \in Sessions, body \in EventBodies :
                  (/\ isAuthenticated(s)
                   /\ users[reqUser(s)].role # "admin"
                   /\ CreateEventReq(s, body))
                  => events'[Len(events')].status = "pending"
          /\ \A id \in 1..Len(events) :
                events'[id].status # events[id].status
                => \E s \in Sessions :
                     /\ isAuthenticated(s)
                     /\ users[reqUser(s)].role = "admin"
                     /\ \/ ApproveEventReq(s, id)
                        \/ \E op \in {"put-event", "patch-event"},
                              body \in EventBodies :
                              UpdateEventReq(op, s, id, body)]_vars

\* C29 witness: the second user, who is no admin, has logged in and created
\* the first event, which is pending.
C29_Witness ==
    /\ resp = Resp("create-event", 201, "")
    /\ Len(events) = 1 /\ events[1].status = "pending"
    /\ users[2].role = "user"
    /\ Len(activities) = 2
    /\ activities[2].action = "created"
    /\ activities[2].userId = 2 /\ activities[2].eventId = 1

\* C30: however many invocations of the handler come, and however they
\* overlap, the body parsers, the routes and the error handler are registered
\* on the app at most once.
C30_InitializedOnce ==
    /\ entry.parsers <= 1
    /\ entry.routes <= 1
    /\ entry.errorHandlers <= 1

====
